---------------------------- MODULE Spec2Model ----------------------------
(***************************************************************************)
(* A model of lxmfy_translate_bot/bot.py: the TranslateBot command         *)
(* handlers (translate, stats), the statistics they keep, the startup      *)
(* sequence of main() with its bulk and selective pre-download, and the    *)
(* uptime formatter.                                                       *)
(*                                                                         *)
(* Text that the code parses (language codes, command arguments, pair      *)
(* tokens) is a sequence of one-character strings, so that lower(),        *)
(* split("-") and " ".join() are computed.  Durations are whole hundredths *)
(* of a second, so that "{x:.2f}" is a rounding to a whole number.         *)
(***************************************************************************)
EXTENDS Integers, Sequences, FiniteSets, TLC

VARIABLES
    \* TranslateBot fields (bot.py 20-26)
    available_packages,      \* self.available_packages: list of packages
    translations_completed,  \* self.translations_completed
    total_translation_time,  \* self.total_translation_time
    translation_times,       \* self.translation_times
    \* the translation engine's state
    installed_packages,      \* argostranslate.package.get_installed_packages()
    \* the last handler invocation
    ctx,                     \* its command name and argument list (ctx.args)
    reply,                   \* what it passed to ctx.reply, NoReply if nothing
    outcome,                 \* "returned" or the exception it let escape
    engine_calls,            \* the engine calls it made, in order
    engine_fault,            \* the engine call that raised in it, "none" if none
    durations,               \* history: the duration of every successful translation
    \* main()
    pc,                      \* position of main()
    flags,                   \* parsed command line: [download_all, download], download <<>> for None
    pairs,                   \* main's list of parsed (from, to) pairs
    pkg_idx,                 \* position of the running download loop
    success_count,           \* tally of the running download loop
    fail_count,
    attempts,                \* history: packages whose download was attempted
    failed,                  \* history: positions of the attempts that raised
    diagnostic,              \* token named by "Invalid language pair format"
    \* format_uptime
    uptime_ms,               \* time.time() - self.start_time, in milliseconds
    uptime_str               \* the string format_uptime returned for it

botVars   == <<available_packages, translations_completed, total_translation_time,
               translation_times>>
stats     == <<translations_completed, total_translation_time, translation_times>>
callVars  == <<ctx, reply, outcome, engine_calls, engine_fault, durations>>
mainVars  == <<pc, flags, pairs, pkg_idx, success_count, fail_count, attempts,
               failed, diagnostic>>
timeVars  == <<uptime_ms, uptime_str>>
vars      == <<botVars, installed_packages, callVars, mainVars, timeVars>>

-----------------------------------------------------------------------------
(* Text *)

en == <<"e", "n">>
es == <<"e", "s">>
fr == <<"f", "r">>
EN == <<"E", "N">>
Es == <<"E", "s">>
hello == <<"h", "i">>
world == <<"y", "o">>

\* str.lower() on one character of the alphabet in use
LowerChar(c) ==
    CASE c = "E" -> "e"
      [] c = "N" -> "n"
      [] c = "S" -> "s"
      [] c = "F" -> "f"
      [] c = "R" -> "r"
      [] OTHER -> c

\* str.lower()
Lower(s) == [i \in DOMAIN s |-> LowerChar(s[i])]

\* sep.join(words)
RECURSIVE Join(_, _)
Join(words, sep) ==
    IF words = <<>> THEN <<>>
    ELSE IF Len(words) = 1 THEN words[1]
    ELSE words[1] \o sep \o Join(Tail(words), sep)

\* s.split(sep) for a one-character separator
RECURSIVE Split(_, _)
Split(s, sep) ==
    IF \A i \in DOMAIN s : s[i] # sep THEN <<s>>
    ELSE LET k == CHOOSE i \in DOMAIN s :
                      s[i] = sep /\ \A j \in 1..(i - 1) : s[j] # sep
         IN  <<SubSeq(s, 1, k - 1)>> \o Split(SubSeq(s, k + 1, Len(s)), sep)

\* sum(s)
RECURSIVE SumTo(_, _)
SumTo(s, n) == IF n = 0 THEN 0 ELSE s[n] + SumTo(s, n - 1)
SumSeq(s) == SumTo(s, Len(s))

\* "{num/den:.2f}" resp. ".1f" of a non-negative quotient: the nearest whole unit
RoundDiv(num, den) == (2 * num + den) \div (2 * den)

Pkg(from, to) == [from_code |-> from, to_code |-> to]

\* Python's None where a package, a printed token or a returned string is expected
NoPackage == [none |-> TRUE]
NoToken == <<"(none)">>
NotCalled == "(not called)"
NoReply == [kind |-> "none"]

-----------------------------------------------------------------------------
(* Bounds and input sets *)

\* most successful translations in a run of the statistics specification
MaxTranslations == 101
\* most of them that take the long duration
MaxSlow == 1
\* most successful translations in a run of the handler specification
MaxServed == 2
\* largest whole number of seconds of uptime formatted
MaxSeconds == 90061

\* capacity of self.translation_times
WindowCap == 100
\* installed packages listed by the stats reply
ListLimit == 5

\* durations a translation may take, in hundredths of a second
DurationSamples == <<100, 250>>
Fast == DurationSamples[1]
Slow == DurationSamples[2]
Durations == {Fast, Slow}

AvailableChoices ==
    { <<>>,
      <<Pkg(en, es)>>,
      <<Pkg(en, es), Pkg(es, en)>>,
      <<Pkg(en, es), Pkg(es, en), Pkg(en, fr)>> }

InstalledChoices == { <<>>, <<Pkg(en, es)>> }

ServeArgs ==
    { <<>>, <<en>>, <<en, es>>,
      <<en, es, hello>>, <<EN, Es, hello, world>>,
      <<EN, fr, hello>>, <<fr, en, hello>> }

EngineFaults == {"none", "download", "install", "translate"}

-----------------------------------------------------------------------------
(* translate_command, bot.py 50-104 *)

\* line 55
\* (variant: the bound one too low)
TooFewArgsShort(args) == Len(args) < 2
TooFewArgs(args) == Len(args) < 3

\* lines 68-72: the first available package for the pair, or None (NoPackage)
\* (variant: the target code is not compared)
FindPackageBySource(source_lang, target_lang) ==
    LET hits == {i \in DOMAIN available_packages :
                    available_packages[i].from_code = source_lang}
    IN  IF hits = {} THEN NoPackage
        ELSE available_packages[CHOOSE i \in hits : \A j \in hits : i <= j]
FindPackage(source_lang, target_lang) ==
    LET hits == {i \in DOMAIN available_packages :
                    /\ available_packages[i].from_code = source_lang
                    /\ available_packages[i].to_code = target_lang}
    IN  IF hits = {} THEN NoPackage
        ELSE available_packages[CHOOSE i \in hits : \A j \in hits : i <= j]

\* argostranslate.package.install_from_path: installing is idempotent
InstallFromPath(installed, package) ==
    IF \E i \in DOMAIN installed : installed[i] = package
    THEN installed
    ELSE Append(installed, package)

\* lines 85-89: append, then drop the oldest beyond the capacity
\* (variant: pop() instead of pop(0))
RecordTimeDropNewest(times, translation_time) ==
    LET appended == Append(times, translation_time)
    IN  IF Len(appended) > WindowCap
        THEN SubSeq(appended, 1, Len(appended) - 1)
        ELSE appended
RecordTime(times, translation_time) ==
    LET appended == Append(times, translation_time)
    IN  IF Len(appended) > WindowCap THEN Tail(appended) ELSE appended

\* lines 78-94: the statements of the try block's translation branch, in order
\* (variant: the statistics recorded before the translate call)
TryBodyRecordFirst == <<"download", "install", "record", "translate", "reply">>
TryBody == <<"download", "install", "translate", "record", "reply">>

\* The state the try block works on
BodyState(package, source_lang, target_lang, text) ==
    [ package   |-> package,
      source    |-> source_lang,
      target    |-> target_lang,
      text      |-> text,
      completed |-> translations_completed,
      total     |-> total_translation_time,
      times     |-> translation_times,
      installed |-> installed_packages,
      calls     |-> <<>>,
      raised    |-> "none",
      reply     |-> NoReply ]

\* One statement of the try block.  `fault` is the engine call that raises in
\* this invocation ("none": none does); `elapsed` is what the clock shows to
\* have passed between lines 76 and 82.
ExecStatement(st, stmt, fault, elapsed) ==
    CASE stmt = "download" ->
            IF fault = "download"
            THEN [st EXCEPT !.calls = Append(@, "download"), !.raised = "download"]
            ELSE [st EXCEPT !.calls = Append(@, "download")]
      [] stmt = "install" ->
            IF fault = "install"
            THEN [st EXCEPT !.calls = Append(@, "install"), !.raised = "install"]
            ELSE [st EXCEPT !.calls = Append(@, "install"),
                            !.installed = InstallFromPath(@, st.package)]
      [] stmt = "translate" ->
            IF fault = "translate"
            THEN [st EXCEPT !.calls = Append(@, "translate"), !.raised = "translate"]
            ELSE [st EXCEPT !.calls = Append(@, "translate")]
      [] stmt = "record" ->
            [st EXCEPT !.completed = @ + 1,
                       !.total = @ + elapsed,
                       !.times = RecordTime(@, elapsed)]
      [] stmt = "reply" ->
            [st EXCEPT !.reply = [kind |-> "translation",
                                  source |-> st.source,
                                  target |-> st.target,
                                  translated |-> <<"translated", st.text,
                                                   st.source, st.target>>]]

\* Statements run in order; the first one that raises ends the block (line 100)
RECURSIVE RunBody(_, _, _, _)
RunBody(st, body, fault, elapsed) ==
    IF body = <<>> \/ st.raised # "none" THEN st
    ELSE RunBody(ExecStatement(st, Head(body), fault, elapsed), Tail(body),
                 fault, elapsed)

\* lines 55-104: what one invocation leaves behind
TranslateResult(args, fault, elapsed) ==
    LET idle == BodyState(NoPackage, <<>>, <<>>, <<>>)
    IN
    IF TooFewArgs(args)
    THEN [idle EXCEPT !.reply = [kind |-> "usage"]]
    ELSE
        LET source_lang == Lower(args[1])
            target_lang == Lower(args[2])
            text        == Join(SubSeq(args, 3, Len(args)), <<" ">>)
            package     == FindPackage(source_lang, target_lang)
        IN
        IF package = NoPackage
        THEN [idle EXCEPT !.reply = [kind |-> "unavailable",
                                     source |-> source_lang,
                                     target |-> target_lang]]
        ELSE
            LET done == RunBody(BodyState(package, source_lang, target_lang, text),
                                TryBody, fault, elapsed)
            IN  IF done.raised = "none" THEN done
                ELSE [done EXCEPT !.reply = [kind |-> "error",
                                             fault |-> done.raised]]

translate_command(args, fault, elapsed) ==
    \E r \in {TranslateResult(args, fault, elapsed)} :
        /\ ctx' = [cmd |-> "translate", args |-> args]
        /\ reply' = r.reply
        /\ outcome' = "returned"
        /\ engine_calls' = r.calls
        /\ engine_fault' = r.raised
        /\ translations_completed' = r.completed
        /\ total_translation_time' = r.total
        /\ translation_times' = r.times
        /\ installed_packages' = r.installed
        /\ durations' = IF r.reply.kind = "translation"
                        THEN Append(durations, elapsed)
                        ELSE durations
        /\ UNCHANGED <<available_packages, mainVars, timeVars>>

-----------------------------------------------------------------------------
(* format_uptime, bot.py 224-240 *)

\* " ".join(parts) for strings
RECURSIVE JoinStr(_, _)
JoinStr(parts, sep) ==
    IF parts = <<>> THEN ""
    ELSE IF Len(parts) = 1 THEN parts[1]
    ELSE parts[1] \o sep \o JoinStr(Tail(parts), sep)

\* line 237
\* (variant: without "or not parts")
ShowSecondsIfPositive(seconds, parts) == seconds > 0
ShowSeconds(seconds, parts) == seconds > 0 \/ parts = <<>>

\* lines 226-238: the list `parts` for an uptime given in milliseconds
UptimeParts(ms) ==
    LET whole     == ms \div 1000          \* int(seconds)
        days      == whole \div 86400
        rem1      == whole % 86400
        hours     == rem1 \div 3600
        rem2      == rem1 % 3600
        minutes   == rem2 \div 60
        seconds   == rem2 % 60
        larger    == (IF days > 0 THEN <<ToString(days) \o "d">> ELSE <<>>)
                     \o (IF hours > 0 THEN <<ToString(hours) \o "h">> ELSE <<>>)
                     \o (IF minutes > 0 THEN <<ToString(minutes) \o "m">> ELSE <<>>)
    IN  larger \o (IF ShowSeconds(seconds, larger)
                   THEN <<ToString(seconds) \o "s">>
                   ELSE <<>>)

format_uptime(ms) == JoinStr(UptimeParts(ms), " ")

\* One call of format_uptime on the uptime drawn by InitUptime
FormatUptime ==
    /\ uptime_str = NotCalled
    /\ uptime_str' = format_uptime(uptime_ms)
    /\ UNCHANGED <<botVars, installed_packages, callVars, mainVars, uptime_ms>>

-----------------------------------------------------------------------------
(* stats_command, bot.py 164-204 *)

\* lines 176-178: the average as a fraction
\* (variant: divided by the capacity instead of the length)
AverageOverCap(times) ==
    IF times # <<>> THEN [num |-> SumSeq(times), den |-> WindowCap]
    ELSE [num |-> 0, den |-> 1]
AverageTime(times) ==
    IF times # <<>> THEN [num |-> SumSeq(times), den |-> Len(times)]
    ELSE [num |-> 0, den |-> 1]

\* lines 193-202: the first five installed pairs and the number left out
ListedPackages(installed) ==
    [ shown |-> [i \in 1..(IF Len(installed) > ListLimit THEN ListLimit
                           ELSE Len(installed)) |->
                    <<installed[i].from_code, installed[i].to_code>>],
      more  |-> IF Len(installed) > ListLimit THEN Len(installed) - ListLimit
                ELSE 0 ]

\* lines 167-204.  The f-string of lines 181-191 divides by total_available
\* unguarded: with no available package it raises ZeroDivisionError before
\* ctx.reply is reached.
StatsResult(uptime) ==
    LET uptime_str_      == format_uptime(uptime)
        installed_count  == Len(installed_packages)
        total_available  == Len(available_packages)
        avg              == AverageTime(translation_times)
    IN  IF total_available = 0
        THEN [raised |-> "ZeroDivisionError", reply |-> NoReply]
        ELSE [raised |-> "none",
              reply  |-> [kind       |-> "stats",
                          uptime     |-> uptime_str_,
                          completed  |-> translations_completed,
                          average    |-> RoundDiv(avg.num, avg.den),
                          total      |-> total_translation_time,
                          downloaded |-> installed_count,
                          available  |-> total_available,
                          coverage   |-> RoundDiv(installed_count * 1000,
                                                  total_available),
                          listed     |-> ListedPackages(installed_packages)]]

stats_command(uptime) ==
    \E r \in {StatsResult(uptime)} :
        /\ ctx' = [cmd |-> "stats", args |-> <<>>]
        /\ reply' = r.reply
        /\ outcome' = IF r.raised = "none" THEN "returned" ELSE r.raised
        /\ engine_calls' = <<"get_installed_packages">>
        /\ engine_fault' = "none"
        /\ UNCHANGED <<botVars, installed_packages, durations, mainVars, timeVars>>

-----------------------------------------------------------------------------
(* Specifications of the serving bot *)

UptimeSamples == {0, 65000, 3661000}

SlowCount == Cardinality({i \in DOMAIN durations : durations[i] = Slow})

MainIdle ==
    /\ pc = "serving"
    /\ flags = [download_all |-> FALSE, download |-> <<>>]
    /\ pairs = <<>>
    /\ pkg_idx = 1
    /\ success_count = 0
    /\ fail_count = 0
    /\ attempts = <<>>
    /\ failed = {}
    /\ diagnostic = NoToken

CallIdle ==
    /\ ctx = [cmd |-> "none", args |-> <<>>]
    /\ reply = NoReply
    /\ outcome = "returned"
    /\ engine_calls = <<>>
    /\ engine_fault = "none"
    /\ durations = <<>>

\* TranslateBot.__init__, lines 23-26
StatsInit ==
    /\ translations_completed = 0
    /\ total_translation_time = 0
    /\ translation_times = <<>>

TimeIdle == uptime_ms = 0 /\ uptime_str = NotCalled

\* The bot as bot.run() starts to serve: any index, any installed packages
InitServe ==
    /\ available_packages \in AvailableChoices
    /\ installed_packages \in InstalledChoices
    /\ StatsInit /\ CallIdle /\ MainIdle /\ TimeIdle

Translate ==
    \E args \in ServeArgs, fault \in EngineFaults, elapsed \in Durations :
        /\ TranslateResult(args, fault, elapsed).reply.kind = "translation"
              => Len(durations) < MaxServed
        /\ translate_command(args, fault, elapsed)

Stats == \E uptime \in UptimeSamples : stats_command(uptime)

NextServe == Translate \/ Stats

SpecServe == InitServe /\ [][NextServe]_vars

\* Long runs of translations of one pair, to fill the window and overflow it
InitWindow ==
    /\ available_packages = <<Pkg(en, es)>>
    /\ installed_packages = <<>>
    /\ StatsInit /\ CallIdle /\ MainIdle /\ TimeIdle

TranslateOk ==
    \E elapsed \in Durations :
        /\ Len(durations) < MaxTranslations
        /\ elapsed = Slow => SlowCount < MaxSlow
        /\ translate_command(<<en, es, hello>>, "none", elapsed)

TranslateFaulty == translate_command(<<en, es, hello>>, "translate", Fast)

StatsNow == stats_command(0)

\* translations that complete, with invocations that fail in between
NextWindow == TranslateOk \/ TranslateFaulty

SpecWindow == InitWindow /\ [][NextWindow]_vars

\* translations that complete, with the statistics asked for in between
NextAverage == TranslateOk \/ StatsNow

SpecAverage == InitWindow /\ [][NextAverage]_vars

\* format_uptime on its own: every whole second up to MaxSeconds, and the
\* half second after it
InitUptime ==
    /\ available_packages = <<>>
    /\ installed_packages = <<>>
    /\ StatsInit /\ CallIdle /\ MainIdle
    /\ uptime_ms \in {1000 * s + f : s \in 0..MaxSeconds, f \in {0, 500}}
    /\ uptime_str = NotCalled

NextUptime == FormatUptime

SpecUptime == InitUptime /\ [][NextUptime]_vars

-----------------------------------------------------------------------------
(* main, bot.py 248-292, and the downloaders *)

\* most tokens after --download
MaxTokens == 2

Tok(from, to) == from \o <<"-">> \o to

Tokens ==
    { Tok(en, es), Tok(EN, fr), Tok(es, en),
      <<"e", "n", "_", "e", "s">>,         \* no hyphen
      Tok(en, es) \o <<"-">> \o fr }       \* two hyphens

TokenLists == UNION { [1..n -> Tokens] : n \in 1..MaxTokens }

DownloadFaults == {"none", "download", "install"}

\* line 279
WellFormed(arg) ==
    /\ \E i \in DOMAIN arg : arg[i] = "-"
    /\ Len(Split(arg, "-")) = 2

\* lines 280-281
ParsePair(arg) ==
    LET parts == Split(arg, "-")
    IN  <<Lower(parts[1]), Lower(parts[2])>>

\* lines 277-284: the token printed as invalid (NoToken if none), whether main
\* returned on it, and the pairs collected before
\* (variant: continue instead of return at line 284)
RECURSIVE ParseSkipping(_, _, _, _)
ParseSkipping(download, i, acc, bad) ==
    IF i > Len(download)
    THEN [diagnostic |-> bad, returned |-> FALSE, pairs |-> acc]
    ELSE IF WellFormed(download[i])
    THEN ParseSkipping(download, i + 1, Append(acc, ParsePair(download[i])), bad)
    ELSE ParseSkipping(download, i + 1, acc,
                       IF bad = NoToken THEN download[i] ELSE bad)
ParseArgsSkipInvalid(download) == ParseSkipping(download, 1, <<>>, NoToken)

RECURSIVE ParseFrom(_, _, _)
ParseFrom(download, i, acc) ==
    IF i > Len(download)
    THEN [diagnostic |-> NoToken, returned |-> FALSE, pairs |-> acc]
    ELSE IF WellFormed(download[i])
    THEN ParseFrom(download, i + 1, Append(acc, ParsePair(download[i])))
    ELSE [diagnostic |-> download[i], returned |-> TRUE, pairs |-> acc]
ParseArgs(download) == ParseFrom(download, 1, <<>>)

\* lines 268, 275, 292: where main goes from its start
\* (variant: bot.run() indented into the download branches)
MainBranchServeOnlyAfterDownload(f) ==
    IF f.download_all THEN "bulk"
    ELSE IF f.download # <<>> THEN "parse"
    ELSE "returned"
MainBranch(f) ==
    IF f.download_all THEN "bulk"
    ELSE IF f.download # <<>> THEN "parse"
    ELSE "run"

\* lines 213-219: the tally after one package, whose download or install
\* raised `fault`
\* (variant: success_count incremented before the install call)
TallyCountingEarly(success, fail, fault) ==
    IF fault = "none" THEN <<success + 1, fail>> ELSE <<success + 1, fail + 1>>
TallyAfter(success, fail, fault) ==
    IF fault = "none" THEN <<success + 1, fail>> ELSE <<success, fail + 1>>

\* argostranslate.package.install_from_path(package.download()) at startup
InstalledAfter(installed, package, fault) ==
    IF fault = "none" THEN InstallFromPath(installed, package) ELSE installed

main_branch ==
    /\ pc = "start"
    /\ pc' = MainBranch(flags)
    /\ UNCHANGED <<botVars, installed_packages, callVars, flags, pairs, pkg_idx,
                   success_count, fail_count, attempts, failed, diagnostic,
                   timeVars>>

\* lines 277-286
main_parse ==
    /\ pc = "parse"
    /\ \E r \in {ParseArgs(flags.download)} :
          /\ diagnostic' = r.diagnostic
          /\ pairs' = r.pairs
          /\ pc' = IF r.returned THEN "returned"
                   ELSE IF r.pairs # <<>> THEN "selective"
                   ELSE "run"
    /\ UNCHANGED <<botVars, installed_packages, callVars, flags, pkg_idx,
                   success_count, fail_count, attempts, failed, timeVars>>

\* One iteration of the loop of download_all_packages, lines 212-219
download_all_step ==
    /\ pc = "bulk"
    /\ pkg_idx <= Len(available_packages)
    /\ \E fault \in DownloadFaults :
          LET package == available_packages[pkg_idx]
              tally   == TallyAfter(success_count, fail_count, fault)
          IN  /\ attempts' = Append(attempts, package)
              /\ failed' = IF fault = "none" THEN failed
                           ELSE failed \cup {Len(attempts) + 1}
              /\ installed_packages' = InstalledAfter(installed_packages,
                                                     package, fault)
              /\ success_count' = tally[1]
              /\ fail_count' = tally[2]
    /\ pkg_idx' = pkg_idx + 1
    /\ UNCHANGED <<botVars, callVars, pc, flags, pairs, diagnostic, timeVars>>

\* lines 221-222 and 270-273: the tally is returned and printed
download_all_done ==
    /\ pc = "bulk"
    /\ pkg_idx > Len(available_packages)
    /\ pc' = "run"
    /\ UNCHANGED <<botVars, installed_packages, callVars, flags, pairs, pkg_idx,
                   success_count, fail_count, attempts, failed, diagnostic,
                   timeVars>>

\* One iteration of download_specific_packages, which main calls at line 288
\* and whose body is not in bot.py: each pair is looked up among the available
\* packages; a pair with no package, or a download or install that raises,
\* counts as a failure and the loop goes on.
download_specific_step ==
    /\ pc = "selective"
    /\ pkg_idx <= Len(pairs)
    /\ LET package == FindPackage(pairs[pkg_idx][1], pairs[pkg_idx][2])
       IN  IF package = NoPackage
           THEN /\ fail_count' = fail_count + 1
                /\ UNCHANGED <<success_count, attempts, failed, installed_packages>>
           ELSE \E fault \in DownloadFaults :
                  /\ attempts' = Append(attempts, package)
                  /\ failed' = IF fault = "none" THEN failed
                               ELSE failed \cup {Len(attempts) + 1}
                  /\ installed_packages' = InstalledAfter(installed_packages,
                                                         package, fault)
                  /\ success_count' = IF fault = "none" THEN success_count + 1
                                      ELSE success_count
                  /\ fail_count' = IF fault = "none" THEN fail_count
                                   ELSE fail_count + 1
    /\ pkg_idx' = pkg_idx + 1
    /\ UNCHANGED <<botVars, callVars, pc, flags, pairs, diagnostic, timeVars>>

\* lines 288-289
download_specific_done ==
    /\ pc = "selective"
    /\ pkg_idx > Len(pairs)
    /\ pc' = "run"
    /\ UNCHANGED <<botVars, installed_packages, callVars, flags, pairs, pkg_idx,
                   success_count, fail_count, attempts, failed, diagnostic,
                   timeVars>>

\* line 292: bot.run() starts to serve and does not return
bot_run ==
    /\ pc = "run"
    /\ pc' = "serving"
    /\ UNCHANGED <<botVars, installed_packages, callVars, flags, pairs, pkg_idx,
                   success_count, fail_count, attempts, failed, diagnostic,
                   timeVars>>

\* main after parse_args() and TranslateBot(): any flags, any package index
InitStartup ==
    /\ available_packages \in AvailableChoices
    /\ installed_packages \in InstalledChoices
    /\ StatsInit /\ CallIdle /\ TimeIdle
    /\ pc = "start"
    /\ flags \in [download_all : BOOLEAN, download : TokenLists \cup {<<>>}]
    /\ pairs = <<>>
    /\ pkg_idx = 1
    /\ success_count = 0
    /\ fail_count = 0
    /\ attempts = <<>>
    /\ failed = {}
    /\ diagnostic = NoToken

NextStartup ==
    \/ main_branch
    \/ main_parse
    \/ download_all_step
    \/ download_all_done
    \/ download_specific_step
    \/ download_specific_done
    \/ bot_run

SpecStartup == InitStartup /\ [][NextStartup]_vars

\* main is straight-line code: it goes on until it returns or bot.run() serves
SpecStartupFair == SpecStartup /\ WF_vars(NextStartup)

-----------------------------------------------------------------------------
(* Properties *)

Min(a, b) == IF a < b THEN a ELSE b

\* the pair named by an argument list is among the available packages
PairAvailable(args) ==
    \E i \in DOMAIN available_packages :
        /\ available_packages[i].from_code = Lower(args[1])
        /\ available_packages[i].to_code = Lower(args[2])

HyphenCount(tok) == Cardinality({j \in DOMAIN tok : tok[j] = "-"})

Malformed(tok) == HyphenCount(tok) # 1

\* main takes its --download branch
SelectiveMode == ~flags.download_all /\ flags.download # <<>>

SelectiveMalformed ==
    SelectiveMode /\ \E i \in DOMAIN flags.download : Malformed(flags.download[i])

FirstMalformed ==
    flags.download[CHOOSE i \in DOMAIN flags.download :
                      /\ Malformed(flags.download[i])
                      /\ \A j \in 1..(i - 1) : ~Malformed(flags.download[j])]

\* C1: a translate invocation with at least three arguments and an available
\* pair in which the download, the install or the translate call raises sends
\* a reply describing that fault, returns normally, and leaves
\* translations_completed, total_translation_time and translation_times as
\* they were.
C1_FaultCaughtStatsKept ==
    [][ ( /\ ctx'.cmd = "translate"
          /\ Len(ctx'.args) >= 3
          /\ PairAvailable(ctx'.args)
          /\ engine_fault' # "none" )
        => ( /\ reply' = [kind |-> "error", fault |-> engine_fault']
             /\ outcome' = "returned"
             /\ UNCHANGED stats ) ]_vars

\* the translate call raised after one translation had completed
C1_Witness ==
    /\ ctx.cmd = "translate"
    /\ engine_fault = "translate"
    /\ engine_calls = <<"download", "install", "translate">>
    /\ reply.kind = "error"
    /\ translations_completed = 1

\* C2: with N translations completed, of durations d1..dN, translation_times
\* is the last min(N, 100) of them in order and never longer than 100,
\* translations_completed is N and total_translation_time is their sum.
C2_WindowIsLastHundred ==
    LET N == Len(durations)
        k == Min(N, 100)
    IN  /\ Len(translation_times) = k
        /\ Len(translation_times) <= 100
        /\ translation_times = SubSeq(durations, N - k + 1, N)
        /\ translations_completed = N
        /\ total_translation_time = SumSeq(durations)

\* the 101st translation evicted the first, which was the long one
C2_Witness ==
    /\ Len(durations) = 101
    /\ durations[1] = Slow
    /\ Len(translation_times) = 100
    /\ \A i \in DOMAIN translation_times : translation_times[i] = Fast

\* C3 as stated: the average in the stats reply is total_translation_time
\* divided by translations_completed when that is positive, else 0.0.
C3_AverageIsTotalOverCount ==
    reply.kind = "stats" =>
        reply.average = IF translations_completed > 0
                        THEN RoundDiv(total_translation_time, translations_completed)
                        ELSE 0

\* C3 as amended: the average in the stats reply is the sum of the last
\* min(N, 100) durations divided by their number when N > 0, else 0.0; it is
\* total_translation_time divided by translations_completed as long as at
\* most 100 translations have completed.
C3_AverageIsWindowMean ==
    reply.kind = "stats" =>
        LET N == Len(durations)
            k == Min(N, 100)
            last == SubSeq(durations, N - k + 1, N)
        IN  /\ reply.average = IF N > 0 THEN RoundDiv(SumSeq(last), k) ELSE 0
            /\ (translations_completed <= 100 =>
                   reply.average =
                       IF translations_completed > 0
                       THEN RoundDiv(total_translation_time, translations_completed)
                       ELSE 0)

\* stats after 101 translations of unequal durations
C3_Witness ==
    /\ reply.kind = "stats"
    /\ translations_completed = 101
    /\ durations[1] = Slow
    /\ reply.average = 100

\* C4: with no available package the stats handler replies, reporting a
\* coverage of 0%, and raises nothing.
C4_ZeroAvailableReportsZero ==
    (ctx.cmd = "stats" /\ Len(available_packages) = 0) =>
        /\ outcome = "returned"
        /\ reply.kind = "stats"
        /\ reply.coverage = 0

\* C5 as stated: main never ends without having called bot.run().
C5_AlwaysServes == pc \in {"returned", "serving"} => pc = "serving"

\* C5 as amended: unless main takes the --download branch with a malformed
\* token in the list, it reaches bot.run() whatever the downloads did; with
\* such a token it returns without serving.
C5_ServesUnlessMalformed ==
    /\ [](~SelectiveMalformed => <>(pc = "serving"))
    /\ [](SelectiveMalformed => pc # "serving")

\* serving after a bulk pre-download in which every package failed
C5_Witness ==
    /\ pc = "serving"
    /\ flags.download_all
    /\ Len(available_packages) = 3
    /\ fail_count = 3

\* C6: a translate invocation with fewer than three arguments sends the usage
\* reply, calls nothing of the engine and leaves the statistics as they were.
C6_UsageOnly ==
    [][ (ctx'.cmd = "translate" /\ Len(ctx'.args) < 3)
        => ( /\ reply' = [kind |-> "usage"]
             /\ outcome' = "returned"
             /\ engine_calls' = <<>>
             /\ engine_fault' = "none"
             /\ UNCHANGED <<stats, installed_packages>> ) ]_vars

\* two arguments naming an available pair, after one translation
C6_Witness ==
    /\ ctx.cmd = "translate"
    /\ Len(ctx.args) = 2
    /\ PairAvailable(ctx.args \o <<hello>>)
    /\ reply.kind = "usage"
    /\ translations_completed = 1

\* C7: a translate invocation with at least three arguments whose lower-cased
\* pair is not available replies "not available" naming that pair, calls
\* nothing of the engine and leaves the statistics as they were.
C7_UnavailableOnly ==
    [][ ( /\ ctx'.cmd = "translate"
          /\ Len(ctx'.args) >= 3
          /\ ~PairAvailable(ctx'.args) )
        => ( /\ reply' = [kind   |-> "unavailable",
                          source |-> Lower(ctx'.args[1]),
                          target |-> Lower(ctx'.args[2])]
             /\ outcome' = "returned"
             /\ engine_calls' = <<>>
             /\ engine_fault' = "none"
             /\ UNCHANGED <<stats, installed_packages>> ) ]_vars

\* "EN fr" asked for while only other pairs from en are available
C7_Witness ==
    /\ ctx = [cmd |-> "translate", args |-> <<EN, fr, hello>>]
    /\ reply = [kind |-> "unavailable", source |-> en, target |-> fr]
    /\ available_packages = <<Pkg(en, es), Pkg(es, en)>>
    /\ translations_completed = 1

\* C8: when main takes the --download branch and a token of the list has no
\* hyphen or more than one, no download is attempted for any token, and main
\* ends by naming the first such token.
C8_MalformedAbortsBeforeDownloads ==
    SelectiveMalformed =>
        /\ attempts = <<>>
        /\ success_count = 0 /\ fail_count = 0
        /\ pc \in {"start", "parse", "returned"}
        /\ pc = "returned" => diagnostic = FirstMalformed

\* a well-formed, available pair precedes the malformed token
C8_Witness ==
    /\ pc = "returned"
    /\ flags.download = <<Tok(en, es), <<"e", "n", "_", "e", "s">> >>
    /\ diagnostic = <<"e", "n", "_", "e", "s">>
    /\ available_packages = <<Pkg(en, es)>>

\* C9: bulk download attempts every available package once, in list order,
\* whatever failed before; when it is done the two counts add up to the number
\* of available packages and fail_count is the number of attempts that raised.
C9_BulkTally ==
    flags.download_all =>
        /\ pc = "bulk" =>
              /\ attempts = SubSeq(available_packages, 1, pkg_idx - 1)
              /\ success_count + fail_count = pkg_idx - 1
        /\ pc \in {"run", "serving"} =>
              /\ attempts = available_packages
              /\ success_count + fail_count = Len(available_packages)
        /\ fail_count = Cardinality(failed)
        /\ pc # "returned"

\* the first of three packages failed and the other two were installed
C9_Witness ==
    /\ flags.download_all
    /\ pc = "run"
    /\ Len(available_packages) = 3
    /\ failed = {1}
    /\ success_count = 2
    /\ fail_count = 1

\* the units of an uptime of s seconds that the claim says are shown
ShownUnits(s) ==
    LET d   == s \div 86400
        h   == (s % 86400) \div 3600
        m   == (s % 3600) \div 60
        sec == s % 60
        all == << <<d, "d">>, <<h, "h">>, <<m, "m">>, <<sec, "s">> >>
        Shown(u) == u[1] # 0 \/ (u[2] = "s" /\ d = 0 /\ h = 0 /\ m = 0)
    IN  SelectSeq(all, Shown)

RECURSIVE Rendered(_)
Rendered(units) ==
    IF units = <<>> THEN ""
    ELSE ToString(Head(units)[1]) \o Head(units)[2]
         \o (IF Len(units) > 1 THEN " " ELSE "") \o Rendered(Tail(units))

\* C10: for a whole number of seconds format_uptime gives the non-zero units
\* among days, hours, minutes, seconds in that order, the seconds also when
\* every larger unit is zero, so never the empty string; 0 gives "0s", 65
\* "1m 5s", 3661 "1h 1m 1s" and 90000 "1d 1h".
C10_UptimeFormat ==
    (uptime_str # NotCalled /\ uptime_ms % 1000 = 0) =>
        LET s == uptime_ms \div 1000
        IN  /\ uptime_str = Rendered(ShownUnits(s))
            /\ uptime_str # ""
            /\ s = 0 => uptime_str = "0s"
            /\ s = 65 => uptime_str = "1m 5s"
            /\ s = 3661 => uptime_str = "1h 1m 1s"
            /\ s = 90000 => uptime_str = "1d 1h"

\* a day and an hour, no minutes and no seconds
C10_Witness == uptime_ms = 90000000 /\ uptime_str = "1d 1h"

=============================================================================
